---------------------------- MODULE Spec2Model ----------------------------
(***************************************************************************)
(* A model of the scene-graph renderer of charticulator-marker-core:       *)
(*   - the Element Identity Service (markID, resetMarkID,                  *)
(*     getElementClassType) of src/src/core/common/unique_id.ts and        *)
(*     src/unnamed/part_000,                                               *)
(*   - renderGraphicalElementSVG of src/unnamed/part_000, with the event   *)
(*     listeners and the chart-container closures it builds.               *)
(***************************************************************************)
EXTENDS Integers, Sequences, FiniteSets, TLC

VARIABLES
  pointer,      \* unique_id.ts:40  the per-namespace mark-ID counters
  lastCall,     \* the last call made to the identity service and what it returned
  epochInputs,  \* the payloads callers gave to markID since the last resetMarkID
  epochRets,    \* what markID returned for them, in order
  resets,       \* how many times resetMarkID was called
  dirtyReset,   \* whether the last resetMarkID found counters to clear
  classified,   \* the getElementClassType calls made: payload and class list
  sceneRoot,    \* the scene graph given to renderGraphicalElementSVG
  sceneOptions, \* the render options given with it
  output,       \* what renderGraphicalElementSVG returned
  dispatched    \* the last pointer event and the callbacks it invoked

idVars == <<pointer, lastCall, epochInputs, epochRets, resets, dirtyReset>>

renderVars == <<sceneRoot, sceneOptions, output, dispatched>>

vars ==
  <<pointer, lastCall, epochInputs, epochRets, resets, dirtyReset, classified,
    sceneRoot, sceneOptions, output, dispatched>>

---------------------------------------------------------------------------
(* Bounds of the model. *)

\* markID calls modelled per counter epoch
MaxCalls == 3

\* resetMarkID calls modelled
MaxResets == 2

\* getElementClassType calls modelled
MaxClassCalls == 2

\* markID calls modelled after a namespace has used up its block of numbers
MaxBlockExtra == 2

---------------------------------------------------------------------------
(* JavaScript values: undefined, null, strings, numbers, objects, arrays. *)

Undefined == [t |-> "undefined"]

Null == [t |-> "null"]

Str(s) == [t |-> "string", s |-> s]

Num(n) == [t |-> "number", n |-> n]

Obj(f) == [t |-> "object", f |-> f]

Arr(a) == [t |-> "array", a |-> a]

\* The outcome of an evaluation that throws.
Thrown == [t |-> "throw"]

\* The object {} : no own keys.
EmptyObject == [k \in {} |-> 0]

\* JavaScript truthiness, as `!datum`, `data._TYPE`, `a || b` apply it.
Truthy(v) ==
  CASE v.t = "undefined" -> FALSE
    [] v.t = "null" -> FALSE
    [] v.t = "string" -> v.s /= ""
    [] v.t = "number" -> v.n /= 0
    [] OTHER -> TRUE

\* `v.name`: reading a property of undefined or null throws a TypeError; an
\* object gives the field or undefined; the other values modelled have no such
\* own property.
CanRead(v) == v.t \notin {"undefined", "null"}

GetProp(v, name) ==
  IF v.t = "object" /\ name \in DOMAIN v.f THEN v.f[name] ELSE Undefined

\* `v == "literal"` for the values a type tag takes here: a string equals the
\* literal when it is the same string; undefined and a number never do.
LooseEqualsString(v, s) == v.t = "string" /\ v.s = s

\* `tum[0]` of an array.
First(v) == IF Len(v.a) > 0 THEN v.a[1] ELSE Undefined

\* The characters of the strings that type tags are tested against.
Chars(s) ==
  CASE s = "" -> <<>>
    [] s = "axis" -> <<"a", "x", "i", "s">>
    [] s = "axis-" -> <<"a", "x", "i", "s", "-">>
    [] s = "axis-x" -> <<"a", "x", "i", "s", "-", "x">>
    [] s = "legend" -> <<"l", "e", "g", "e", "n", "d">>
    [] s = "legend-" -> <<"l", "e", "g", "e", "n", "d", "-">>
    [] s = "legend-item" ->
         <<"l", "e", "g", "e", "n", "d", "-", "i", "t", "e", "m">>
    [] s = "legendary" -> <<"l", "e", "g", "e", "n", "d", "a", "r", "y">>
    [] s = "nested-chart" ->
         <<"n", "e", "s", "t", "e", "d", "-", "c", "h", "a", "r", "t">>
    [] s = "rect" -> <<"r", "e", "c", "t">>
    [] s = "circle" -> <<"c", "i", "r", "c", "l", "e">>

\* A variant of StartsWith that asks for the whole string.
StartsWith_equals(s, prefix) == s = prefix

\* String.prototype.startsWith
StartsWith(s, prefix) ==
  LET cs == Chars(s)
      ps == Chars(prefix)
  IN  Len(cs) >= Len(ps) /\ SubSeq(cs, 1, Len(ps)) = ps

\* The property key a value is converted to when it indexes `pointer`.
ToPropertyKey(v) ==
  CASE v.t = "string" -> v.s
    [] v.t = "number" /\ v.n = 5 -> "5"

---------------------------------------------------------------------------
(* The payloads (data-datum strings) the model draws from, and JSON.parse  *)
(* on them.                                                                *)

TagObject(tag) == Obj("_TYPE" :> tag)

MarkObject(tag, id) == Obj(("_TYPE" :> Str(tag)) @@ ("_MARKID" :> Str(id)))

\* JSON.parse(datum): the parsed value, or Thrown on a SyntaxError (any text
\* that is not JSON, the empty string, and undefined, which is parsed as the
\* text "undefined").
JSONParse(datum) ==
  IF datum.t /= "string" THEN Thrown
  ELSE CASE datum.s = "{\"_TYPE\":\"axis\"}" -> TagObject(Str("axis"))
         [] datum.s = "{\"_TYPE\":\"legend\"}" -> TagObject(Str("legend"))
         [] datum.s = "{\"_TYPE\":\"nested-chart\"}" ->
              TagObject(Str("nested-chart"))
         [] datum.s = "{\"_TYPE\":\"axis-x\"}" -> TagObject(Str("axis-x"))
         [] datum.s = "{\"_TYPE\":\"legend-item\"}" ->
              TagObject(Str("legend-item"))
         [] datum.s = "{\"_TYPE\":\"legendary\"}" -> TagObject(Str("legendary"))
         [] datum.s = "{\"_TYPE\":\"rect\",\"_MARKID\":\"m7\"}" ->
              MarkObject("rect", "m7")
         [] datum.s = "{\"_TYPE\":\"circle\",\"_MARKID\":\"m2\"}" ->
              MarkObject("circle", "m2")
         [] datum.s = "[{\"_TYPE\":\"rect\",\"_MARKID\":\"m7\"}]" ->
              Arr(<<MarkObject("rect", "m7")>>)
         [] datum.s = "[{\"_TYPE\":\"axis\"}]" ->
              Arr(<<TagObject(Str("axis"))>>)
         [] datum.s = "{\"_TYPE\":5}" -> TagObject(Num(5))
         [] datum.s = "{\"_TYPE\":\"\"}" -> TagObject(Str(""))
         [] datum.s = "{}" -> Obj(EmptyObject)
         [] datum.s = "5" -> Num(5)
         [] datum.s = "null" -> Null
         [] datum.s = "[]" -> Arr(<<>>)
         [] datum.s = "[null]" -> Arr(<<Null>>)
         [] OTHER -> Thrown

\* Payloads that parse to an object (possibly wrapped in an array).
DescriptorTexts ==
  { "{\"_TYPE\":\"axis\"}", "{\"_TYPE\":\"legend\"}",
    "{\"_TYPE\":\"nested-chart\"}", "{\"_TYPE\":\"axis-x\"}",
    "{\"_TYPE\":\"legend-item\"}", "{\"_TYPE\":\"legendary\"}",
    "{\"_TYPE\":\"rect\",\"_MARKID\":\"m7\"}",
    "{\"_TYPE\":\"circle\",\"_MARKID\":\"m2\"}",
    "[{\"_TYPE\":\"rect\",\"_MARKID\":\"m7\"}]", "[{\"_TYPE\":\"axis\"}]",
    "{\"_TYPE\":5}", "{\"_TYPE\":\"\"}", "{}" }

\* Payloads that parse to something that is no object, or do not parse.
OtherTexts == { "", "not json", "5", "null", "[]", "[null]" }

\* What a node's data-datum may hold: a string, or nothing.
Datums == {Undefined} \cup {Str(s) : s \in DescriptorTexts \cup OtherTexts}

---------------------------------------------------------------------------
(* unique_id.ts: markID and resetMarkID.                                   *)

\* "mark" + n  (no payload text of the model is of this form)
MarkLabel(n) == [t |-> "string", prefix |-> "mark", n |-> n]

IsMarkLabel(v) == v.t = "string" /\ "prefix" \in DOMAIN v

\* The width of the block of numbers a namespace starts from.
NamespaceBlock == 1000

\* `tum instanceof Array ? tum[0] : tum`
Unwrap(parsed) == IF parsed.t = "array" THEN First(parsed) ELSE parsed

\* The type tags for which markID returns null.
MarkIDExcluded(type) ==
  LooseEqualsString(type, "axis") \/ LooseEqualsString(type, "nested-chart")

\* `pointer[namespace] === undefined` => the namespace's first number
OpenNamespace(ptr, namespace) ==
  IF namespace \notin DOMAIN ptr
    THEN ptr @@ (namespace :> Cardinality(DOMAIN ptr) * NamespaceBlock + 1)
    ELSE ptr

\* A variant of markIDCatch that answers null, as the guard on an absent
\* payload does.
markIDCatch_null(datum, ptr) == [ret |-> Null, pointer |-> ptr]

\* `catch { return datum; }`
markIDCatch(datum, ptr) == [ret |-> datum, pointer |-> ptr]

\* markID(datum) in the state `ptr` of the counters: what it returns and the
\* counters it leaves.  The catch clause is entered on every exception of the
\* try block: JSON.parse's SyntaxError and the TypeError of reading _TYPE of
\* undefined or null; both are raised before `pointer` is touched.
markID(datum, ptr) ==
  IF ~Truthy(datum) THEN [ret |-> Null, pointer |-> ptr]
  ELSE
    LET parsed == JSONParse(datum) IN
    IF parsed = Thrown THEN markIDCatch(datum, ptr)
    ELSE
      LET tum == Unwrap(parsed) IN
      IF ~CanRead(tum) THEN markIDCatch(datum, ptr)
      ELSE
        LET type == GetProp(tum, "_TYPE") IN
        IF MarkIDExcluded(type) THEN [ret |-> Null, pointer |-> ptr]
        ELSE
          LET namespace ==
                ToPropertyKey(IF Truthy(type) THEN type
                              ELSE Str("base-mark-group"))
              opened == OpenNamespace(ptr, namespace)
          IN  [ret |-> MarkLabel(opened[namespace]),
               pointer |-> [opened EXCEPT ![namespace] = @ + 1]]

\* A variant of resetMarkID that leaves the counters as they are.
resetMarkID_keep(ptr) == ptr

\* resetMarkID(): pointer = {}
resetMarkID(ptr) == EmptyObject

---------------------------------------------------------------------------
(* part_000: getElementClassType.                                          *)

\* The class list of a payload.  Every exception of the try block gives []:
\* the SyntaxError of JSON.parse, the TypeError of reading _TYPE of undefined
\* or null, and the TypeError of calling startsWith on a tag that is no string.
getElementClassType(datum) ==
  LET parsed == JSONParse(datum) IN
  IF parsed = Thrown THEN <<>>
  ELSE
    LET data == Unwrap(parsed) IN
    IF ~CanRead(data) THEN <<>>
    ELSE
      LET type == GetProp(data, "_TYPE") IN
      IF Truthy(type)
        THEN IF type.t /= "string" THEN <<>>
             ELSE IF StartsWith(type.s, "axis-") \/ StartsWith(type.s, "legend-")
               THEN <<Str("mark"), type>>
             ELSE IF \/ LooseEqualsString(type, "nested-chart")
                     \/ LooseEqualsString(type, "axis")
                     \/ LooseEqualsString(type, "legend")
               THEN <<type>>
             ELSE <<Str("mark"), GetProp(data, "_MARKID"), type>>
        ELSE <<Str("mark")>>

---------------------------------------------------------------------------
(* part_000: styles.                                                       *)

\* A color {r, g, b}.
Color(r, g, b) == [t |-> "color", r |-> r, g |-> g, b |-> b]

\* The text `rgb(r,g,b)`.
RgbText(r, g, b) == [t |-> "string", rgb |-> <<r, g, b>>]

\* A callback given in the render options.
Fn(name) == [t |-> "function", name |-> name]

\* `e.name` of a scene-graph node or of the render options: undefined when
\* the field is not there.
Field(e, name) == IF name \in DOMAIN e THEN e[name] ELSE Undefined

\* `o.name = v` on an object.
SetProp(o, name, v) == Obj((name :> v) @@ o.f)

\* `a || b`
OrElse(a, b) == IF Truthy(a) THEN a ELSE b

\* `v != undefined ? v : d`
Default(v, d) == IF v.t \in {"undefined", "null"} THEN d ELSE v

\* renderColor(color, colorFilter), for integer channels and no color filter:
\* toFixed(0) of an integer channel is its decimal text.
renderColor(color, colorFilter) ==
  IF ~Truthy(color) THEN RgbText(0, 0, 0)
  ELSE RgbText(color.r, color.g, color.b)

\* renderStyle(style)
renderStyle(style) ==
  IF style.t \in {"undefined", "null"} THEN Obj(EmptyObject)
  ELSE
    Obj([stroke |-> IF Truthy(GetProp(style, "strokeColor"))
                      THEN renderColor(GetProp(style, "strokeColor"),
                                       GetProp(style, "colorFilter"))
                      ELSE Str("none"),
         strokeOpacity |-> Default(GetProp(style, "strokeOpacity"), Num(1)),
         strokeWidth |-> Default(GetProp(style, "strokeWidth"), Num(1)),
         strokeLinecap |-> Default(GetProp(style, "strokeLinecap"), Str("round")),
         strokeLinejoin |->
           Default(GetProp(style, "strokeLinejoin"), Str("round")),
         fill |-> IF Truthy(GetProp(style, "fillColor"))
                    THEN renderColor(GetProp(style, "fillColor"),
                                     GetProp(style, "colorFilter"))
                    ELSE Str("none"),
         fillOpacity |-> Default(GetProp(style, "fillOpacity"), Num(1)),
         textAnchor |-> Default(GetProp(style, "textAnchor"), Str("start")),
         opacity |-> Default(GetProp(style, "opacity"), Num(1))])

\* shallowClone(style): a new object with the same own properties.
shallowClone(o) == o

\* renderTransform(transform), without the number formatting of its text: the
\* translation with y negated and, for an angle that is not (nearly) zero,
\* the rotation negated.  Angles are integers here, so |angle| < 1e-7 is
\* angle = 0.
renderTransform(transform) ==
  IF ~Truthy(transform) THEN Null
  ELSE IF transform.angle = 0
    THEN [t |-> "string", translate |-> <<transform.x, -transform.y>>]
    ELSE [t |-> "string", translate |-> <<transform.x, -transform.y>>,
          rotate |-> -transform.angle]

---------------------------------------------------------------------------
(* part_000: path commands and their serialization.                        *)

\* toSVGNumber(x) for the integers of the model: the decimal text of x.
toSVGNumber(x) == [t |-> "string", number |-> x]

\* A path command {cmd, args}.
PathCommand(cmd, args) == [cmd |-> cmd, args |-> args]

\* The commands a PathMaker appends to maker.path.cmds.
moveTo(x, y) == PathCommand("M", <<x, y>>)

lineTo(x, y) == PathCommand("L", <<x, y>>)

arcTo(rx, ry, xAxisRotation, largeArcFlag, sweepFlag, x, y) ==
  PathCommand("A", <<rx, ry, xAxisRotation, largeArcFlag, sweepFlag, x, y>>)

closePath == PathCommand("Z", <<>>)

\* The text of one command: its letter and, separated by commas, its numbers.
Token(letter, numbers) == [letter |-> letter, numbers |-> numbers]

\* A variant of path_commands that writes the end point of an arc as given.
path_commands_arcAsGiven(cmd, args) ==
  CASE cmd = "M" ->
         Token("M", <<toSVGNumber(args[1]), toSVGNumber(-args[2])>>)
    [] cmd = "L" ->
         Token("L", <<toSVGNumber(args[1]), toSVGNumber(-args[2])>>)
    [] cmd = "C" ->
         Token("C", <<toSVGNumber(args[1]), toSVGNumber(-args[2]),
                      toSVGNumber(args[3]), toSVGNumber(-args[4]),
                      toSVGNumber(args[5]), toSVGNumber(-args[6])>>)
    [] cmd = "Q" ->
         Token("Q", <<toSVGNumber(args[1]), toSVGNumber(-args[2]),
                      toSVGNumber(args[3]), toSVGNumber(-args[4])>>)
    [] cmd = "A" ->
         Token("A", <<toSVGNumber(args[1]), toSVGNumber(args[2]),
                      toSVGNumber(args[3]), toSVGNumber(args[4]),
                      toSVGNumber(args[5]), toSVGNumber(args[6]),
                      toSVGNumber(args[7])>>)
    [] cmd = "Z" -> Token("Z", <<>>)

\* path_commands[cmd](args): TLA+ sequences count from one, so args[0] of the
\* code is args[1] here.
path_commands(cmd, args) ==
  CASE cmd = "M" ->
         Token("M", <<toSVGNumber(args[1]), toSVGNumber(-args[2])>>)
    [] cmd = "L" ->
         Token("L", <<toSVGNumber(args[1]), toSVGNumber(-args[2])>>)
    [] cmd = "C" ->
         Token("C", <<toSVGNumber(args[1]), toSVGNumber(-args[2]),
                      toSVGNumber(args[3]), toSVGNumber(-args[4]),
                      toSVGNumber(args[5]), toSVGNumber(-args[6])>>)
    [] cmd = "Q" ->
         Token("Q", <<toSVGNumber(args[1]), toSVGNumber(-args[2]),
                      toSVGNumber(args[3]), toSVGNumber(-args[4])>>)
    [] cmd = "A" ->
         Token("A", <<toSVGNumber(args[1]), toSVGNumber(args[2]),
                      toSVGNumber(args[3]), toSVGNumber(args[4]),
                      toSVGNumber(args[5]), toSVGNumber(args[6]),
                      toSVGNumber(-args[7])>>)
    [] cmd = "Z" -> Token("Z", <<>>)

\* renderSVGPath(cmds): the texts of the commands, in order, as join(" ")
\* puts them one after the other.
renderSVGPath(cmds) ==
  [i \in DOMAIN cmds |-> path_commands(cmds[i].cmd, cmds[i].args)]

\* The commands the rect, circle and line cases give to their PathMaker, and
\* the commands a path node brings itself.
ShapeCommands(element) ==
  CASE element.type = "rect" ->
         <<moveTo(element.x1, element.y1), lineTo(element.x1, element.y2),
           lineTo(element.x2, element.y2), lineTo(element.x2, element.y1),
           closePath>>
    [] element.type = "circle" ->
         <<moveTo(element.cx - element.r, element.cy),
           arcTo(element.r, element.r, 0, 1, 0,
                 element.cx + element.r, element.cy),
           arcTo(element.r, element.r, 0, 1, 0,
                 element.cx - element.r, element.cy),
           closePath>>
    [] element.type = "line" ->
         <<moveTo(element.x1, element.y1), lineTo(element.x2, element.y2)>>
    [] element.type = "path" -> element.cmds

\* The `d` attribute of a rect, circle, line or path node; the geometry of
\* the ellipse, polygon and image variants is not part of the model.
PathData(element) ==
  IF element.type \in {"rect", "circle", "line", "path"}
    THEN [d |-> renderSVGPath(ShapeCommands(element))]
    ELSE EmptyObject

---------------------------------------------------------------------------
(* part_000: renderGraphicalElementSVG.                                    *)

EventNames == {"onClick", "onMouseEnter", "onMouseLeave"}

\* The variants drawn as one <path>, and the one drawn as <image>.
PathTypes == {"rect", "circle", "ellipse", "line", "polygon", "path"}

\* The listeners `mouseEvents` holds: for a selectable node, one per callback
\* registered in the options; each calls its callback with element.selectable,
\* the click listener after e.stopPropagation().
MouseEvents(element, options) ==
  IF Truthy(Field(element, "selectable"))
    THEN [ev \in {e \in EventNames : Truthy(Field(options, e))} |->
            [stop |-> ev = "onClick", handler |-> Field(options, ev),
             arg |-> Field(element, "selectable")]]
    ELSE EmptyObject

\* `[...([options.className] || []), ...(datum ? getElementClassType(datum) : [])]`
\* before its join(" "): [options.className] is an array, hence truthy, so
\* its one element is always there.
ClassNames(element, options) ==
  <<Field(options, "className")>>
    \o (IF Truthy(Field(element, "datum"))
          THEN getElementClassType(Field(element, "datum"))
          ELSE <<>>)

\* The first character of a payload text of the model, as
\* datum.startsWith("{") and datum.startsWith("[") test it.
FirstChar(datum) ==
  CASE datum.s \in {"[{\"_TYPE\":\"rect\",\"_MARKID\":\"m7\"}]",
                    "[{\"_TYPE\":\"axis\"}]", "[]", "[null]"} -> "["
    [] datum.s \in DescriptorTexts -> "{"
    [] datum.s = "not json" -> "n"
    [] datum.s = "null" -> "n"
    [] datum.s = "5" -> "5"

\* `element["data-datum"] || null`
DataDatum(element) == OrElse(Field(element, "datum"), Null)

\* An output node.  `on` holds its listeners, `props` what else the variant
\* sets, `children` its child nodes.
Node(tag, key, id, className, style, datum, on, props, children) ==
  [tag |-> tag, key |-> key, id |-> id, className |-> className,
   style |-> style, datum |-> datum, on |-> on, props |-> props,
   children |-> children]

\* What rendering gives: a node (or null, or undefined) and the counters it
\* leaves, or an exception.
Returned(node, ptr) == [threw |-> FALSE, node |-> node, pointer |-> ptr]

Threw(ptr) == [threw |-> TRUE, node |-> Undefined, pointer |-> ptr]

\* The options a group hands to each child.
ChildOptions(options, index) ==
  [key |-> [t |-> "string", prefix |-> "m", n |-> index],
   chartComponentSync |-> Field(options, "chartComponentSync"),
   externalResourceResolver |-> Field(options, "externalResourceResolver"),
   onClick |-> Field(options, "onClick"),
   onMouseEnter |-> Field(options, "onMouseEnter"),
   onMouseLeave |-> Field(options, "onMouseLeave"),
   selection |-> Field(options, "selection")]

\* The closure subSelection.isSelected of a chart container.
SubSelection(component, options) ==
  IF Truthy(Field(options, "selection"))
    THEN [t |-> "closure", component |-> component,
          selection |-> Field(options, "selection")]
    ELSE Null

\* convertEventHandler(handler)
convertEventHandler(component, handler) ==
  IF ~Truthy(handler) THEN Null
  ELSE [t |-> "closure", component |-> component, handler |-> handler]

\* The style of a text or text-on-path node after fontFamily and fontSize are
\* set on it.
WithFont(style, text) ==
  SetProp(SetProp(style, "fontFamily", Field(text, "fontFamily")),
          "fontSize", [t |-> "string", px |-> Field(text, "fontSize")])

RECURSIVE renderGraphicalElementSVG(_, _, _)
RECURSIVE RenderChildren(_, _, _, _)

\* group.elements.map((x, index) => renderGraphicalElementSVG(x, {...})),
\* from the child at `index` (0-based) on.
RenderChildren(elements, index, options, ptr) ==
  IF index >= Len(elements) THEN [nodes |-> <<>>, pointer |-> ptr]
  ELSE
    LET first == renderGraphicalElementSVG(elements[index + 1],
                                           ChildOptions(options, index), ptr)
        rest == RenderChildren(elements, index + 1, options, first.pointer)
    IN  [nodes |-> <<first.node>> \o rest.nodes, pointer |-> rest.pointer]

\* renderGraphicalElementSVG(element, options) with the counters `ptr`.
\* The JSX attributes are evaluated in the order written, so a group calls
\* markID for itself before its children are rendered, and the two outputs of
\* a stroked text call markID one after the other.  Geometry attributes (d, x,
\* y, width, height, href) other than the `d` of PathData are not part of the
\* nodes modelled here.
renderGraphicalElementSVG(element, opts, ptr) ==
  IF "type" \notin DOMAIN element THEN Returned(Null, ptr)
  ELSE
    LET options == IF "t" \in DOMAIN opts THEN EmptyObject ELSE opts
        style0 == IF Truthy(Field(options, "noStyle")) THEN Null
                  ELSE renderStyle(OrElse(Field(options, "styleOverride"),
                                          Field(element, "style")))
        selectable == Truthy(Field(element, "selectable"))
        style == IF selectable /\ style0 /= Null
                   THEN SetProp(SetProp(style0, "cursor", Str("pointer")),
                                "pointerEvents", Str("all"))
                   ELSE style0
        mouseEvents == MouseEvents(element, options)
        datum == Field(element, "datum")
        key == Field(options, "key")
    IN
    IF selectable /\ style0 = Null THEN Threw(ptr)
    ELSE IF element.type \in PathTypes \cup {"image"} THEN
      LET id == markID(datum, ptr) IN
      Returned(Node(IF element.type = "image" THEN "image" ELSE "path",
                    key, id.ret, ClassNames(element, options), style,
                    DataDatum(element), mouseEvents, PathData(element),
                    <<>>),
               id.pointer)
    ELSE IF element.type = "text-on-path" THEN
      IF style = Null THEN Threw(ptr)
      ELSE Returned(Node("TextOnPath", Undefined, Undefined, <<>>,
                         WithFont(style, element), Undefined, EmptyObject,
                         [text |-> Field(element, "text"),
                          align |-> Field(element, "align")], <<>>),
                    ptr)
    ELSE IF element.type = "text" THEN
      IF style = Null THEN Threw(ptr)
      ELSE
        LET styled == WithFont(style, element) IN
        IF GetProp(styled, "stroke") /= Str("none") THEN
          LET style2 == SetProp(shallowClone(styled), "fill",
                                GetProp(styled, "stroke"))
              id1 == markID(datum, ptr)
              e1 == Node("text", Undefined, id1.ret,
                         ClassNames(element, options), style2,
                         DataDatum(element), mouseEvents,
                         [text |-> Field(element, "text")], <<>>)
              id2 == markID(datum, id1.pointer)
              e2 == Node("text", Undefined, id2.ret,
                         ClassNames(element, options),
                         SetProp(styled, "stroke", Str("none")),
                         DataDatum(element), mouseEvents,
                         [text |-> Field(element, "text")], <<>>)
          IN  Returned(Node("g", key, Undefined, <<>>, Undefined, Undefined,
                            EmptyObject, EmptyObject, <<e1, e2>>),
                       id2.pointer)
        ELSE
          LET id == markID(datum, ptr) IN
          Returned(Node("text", key, id.ret, ClassNames(element, options),
                        styled, DataDatum(element), mouseEvents,
                        [text |-> Field(element, "text")], <<>>),
                   id.pointer)
    ELSE IF element.type = "chart-container" THEN
      Returned(Node("ChartComponent", key, Undefined, <<>>, Undefined,
                    Undefined, EmptyObject,
                    [selection |-> SubSelection(element, options),
                     onGlyphClick |->
                       convertEventHandler(element, Field(options, "onClick")),
                     onGlyphMouseEnter |->
                       convertEventHandler(element,
                                           Field(options, "onMouseEnter")),
                     onGlyphMouseLeave |->
                       convertEventHandler(element,
                                           Field(options, "onMouseLeave")),
                     sync |-> Field(options, "chartComponentSync")],
                    <<>>),
               ptr)
    ELSE IF element.type = "group" THEN
      LET id == markID(datum, ptr)
          groupStyle == Field(element, "style")
          opacity == IF Truthy(groupStyle)
                        /\ GetProp(groupStyle, "opacity").t
                             \notin {"undefined", "null"}
                       THEN GetProp(groupStyle, "opacity") ELSE Num(1)
          children == RenderChildren(element.elements, 0, options, id.pointer)
      IN  Returned(Node("g", OrElse(Field(element, "key"), key), id.ret,
                        getElementClassType(datum),
                        Obj([opacity |-> opacity]),
                        IF Truthy(datum) /\ FirstChar(datum) \in {"{", "["}
                          THEN datum ELSE Null,
                        mouseEvents,
                        [transform |->
                           renderTransform(Field(element, "transform"))],
                        children.nodes),
                   children.pointer)
    ELSE Returned(Undefined, ptr)

---------------------------------------------------------------------------
(* The scene graphs and render options the model draws from.               *)

\* Selectable descriptors: of a leaf, of an inner group, of an outer group.
Selectable(glyph) ==
  Obj([plotSegment |-> Obj([table |-> Str("T1")]), glyphIndex |-> Num(glyph),
       rowIndices |-> <<Num(glyph)>>])

SelLeaf == Selectable(0)

SelInner == Selectable(1)

SelOuter == Selectable(2)

StrokeStyle == Obj([strokeColor |-> Color(255, 0, 0)])

FillStyle == Obj([fillColor |-> Color(0, 0, 255)])

BothStyle ==
  Obj([strokeColor |-> Color(255, 0, 0), fillColor |-> Color(0, 0, 255)])

\* A style record that names no color.
PlainStyle == Obj([strokeWidth |-> Num(2)])

RectDatum == Str("{\"_TYPE\":\"rect\",\"_MARKID\":\"m7\"}")

CircleDatum == Str("{\"_TYPE\":\"circle\",\"_MARKID\":\"m2\"}")

\* The closed set of node variants, and a tag outside it.
LeafTypes == PathTypes \cup {"image", "text", "text-on-path", "chart-container"}

ClosedTypes == LeafTypes \cup {"group"}

UnknownType == "star"

TextFields ==
  [text |-> Str("label"), fontFamily |-> Str("Arial"), fontSize |-> Num(12),
   align |-> Str("middle")]

\* The geometry of the rect, circle, line and path nodes of the scenes.
Geometry(type) ==
  CASE type \in {"rect", "line"} -> [x1 |-> 0, y1 |-> 0, x2 |-> 10, y2 |-> 10]
    [] type = "circle" -> [cx |-> 4, cy |-> 6, r |-> 5]
    [] type = "path" -> [cmds |-> <<moveTo(1, 2), lineTo(3, 4)>>]
    [] OTHER -> EmptyObject

\* A leaf node.
Leaf(type, style, datum, selectable) ==
  [type |-> type, style |-> style, datum |-> datum, selectable |-> selectable]
    @@ (IF type \in {"text", "text-on-path"} THEN TextFields ELSE EmptyObject)
    @@ Geometry(type)

\* Single leaves: every variant; the text variants with every style.
SingleLeaves ==
  { Leaf(type, style, datum, selectable) :
      type \in LeafTypes \cup {UnknownType},
      style \in {Undefined, BothStyle},
      datum \in {Undefined, RectDatum, Str("not json")},
      selectable \in {Undefined, SelLeaf} }
  \cup
  { Leaf(type, style, datum, selectable) :
      type \in {"text", "text-on-path"},
      style \in {PlainStyle, StrokeStyle, FillStyle},
      datum \in {Undefined, RectDatum},
      selectable \in {Undefined, SelLeaf} }

\* The leaves a group holds.
ChildLeaves ==
  { Leaf("circle", Undefined, datum, selectable) :
      datum \in {Undefined, RectDatum, Str("not json")},
      selectable \in {Undefined, SelLeaf} }
  \cup
  { Leaf("text-on-path", Undefined, Undefined, selectable) :
      selectable \in {Undefined, SelLeaf} }
  \cup
  { Leaf("text", StrokeStyle, RectDatum, selectable) :
      selectable \in {Undefined, SelLeaf} }

\* The number of children of a group.
MaxChildren == 2

\* A group node.
Group(elements, selectable, transform, datum) ==
  [type |-> "group", elements |-> elements, selectable |-> selectable,
   transform |-> transform, datum |-> datum, style |-> Undefined]

SeqsUpTo(S, n) == UNION {[1..m -> S] : m \in 0..n}

\* Groups of one leaf, with no transform of their own.
InnerGroups ==
  { Group(<<leaf>>, selectable, Undefined, Undefined) :
      leaf \in { Leaf(type, Undefined, Undefined, sel) :
                   type \in {"circle", "text-on-path"},
                   sel \in {Undefined, SelLeaf} },
      selectable \in {Undefined, SelInner} }

GroupTransform == [t |-> "transform", x |-> 10, y |-> 20, angle |-> 1]

\* Groups of up to MaxChildren children: leaves, inner groups, absent nodes.
Groups ==
  { Group(elements, selectable, transform, datum) :
      elements \in SeqsUpTo(ChildLeaves \cup InnerGroups \cup {Null},
                            MaxChildren),
      selectable \in {Undefined, SelOuter},
      transform \in {Undefined, GroupTransform},
      datum \in {Undefined, RectDatum} }

\* The callbacks registered in the options: any subset of the three.
Callbacks(registered) ==
  [ev \in EventNames |-> IF ev \in registered THEN Fn(ev) ELSE Undefined]

\* The render options of a single leaf.
LeafOptions ==
  {Undefined} \cup
  { Callbacks(registered)
      @@ [noStyle |-> noStyle, styleOverride |-> styleOverride,
          className |-> Str("glyph"), key |-> Str("k")] :
      registered \in SUBSET EventNames,
      noStyle \in {Undefined, [t |-> "boolean", b |-> TRUE]},
      styleOverride \in {Undefined, StrokeStyle} }

\* The render options of a group.
GroupOptions ==
  { Callbacks(registered) :
      registered \in {{}, {"onClick"}, EventNames} }

---------------------------------------------------------------------------
(* Rendering and the pointer events of the rendered tree.                  *)

NoCall == [op |-> "none"]

NotRendered == [phase |-> "none"]

NoEvent == [event |-> "none"]

IsNode(n) == "tag" \in DOMAIN n

RECURSIVE NodeAt(_, _)
\* The output node at `path` (child positions from the root).
NodeAt(node, path) ==
  IF path = <<>> THEN node
  ELSE NodeAt(node.children[Head(path)], Tail(path))

RECURSIVE Paths(_)
\* The paths of the output nodes under `node`.
Paths(node) ==
  {<<>>} \cup
  UNION { {<<i>> \o p : p \in Paths(node.children[i])} :
            i \in {k \in DOMAIN node.children : IsNode(node.children[k])} }

RECURSIVE SourceElement(_, _)
\* The scene-graph node that the output node at `path` was rendered from: a
\* group's children are rendered in place; the two outputs of a stroked text
\* come from the text node itself.
SourceElement(elem, path) ==
  IF path = <<>> \/ elem.type /= "group" THEN elem
  ELSE SourceElement(elem.elements[Head(path)], Tail(path))

RECURSIVE ClickCalls(_, _)
\* The callbacks a click on the node at `path` invokes: the event bubbles from
\* the target to the root through the onClick listeners on its way, and stops
\* at a listener that calls e.stopPropagation().
ClickCalls(tree, path) ==
  LET n == NodeAt(tree, path)
      listens == "onClick" \in DOMAIN n.on
      here == IF listens
                THEN <<[handler |-> n.on["onClick"].handler,
                        arg |-> n.on["onClick"].arg]>>
                ELSE <<>>
  IN  IF path = <<>> \/ (listens /\ n.on["onClick"].stop) THEN here
      ELSE here \o ClickCalls(tree, SubSeq(path, 1, Len(path) - 1))

\* The callbacks the pointer entering or leaving the node at `path` invokes:
\* these events do not bubble.
HoverCalls(tree, path, ev) ==
  LET n == NodeAt(tree, path) IN
  IF ev \in DOMAIN n.on
    THEN <<[handler |-> n.on[ev].handler, arg |-> n.on[ev].arg]>>
    ELSE <<>>

IdleRender ==
  /\ sceneRoot = Null
  /\ sceneOptions = Undefined
  /\ output = NotRendered
  /\ dispatched = NoEvent

FreshIdentity ==
  /\ pointer = EmptyObject
  /\ lastCall = NoCall
  /\ epochInputs = <<>>
  /\ epochRets = <<>>
  /\ resets = 0
  /\ dirtyReset = FALSE
  /\ classified = <<>>

Init == FreshIdentity /\ IdleRender

\* A scene graph and its sceneOptions are given to the renderer.
InitRender ==
  /\ FreshIdentity
  /\ \/ sceneRoot \in SingleLeaves \cup {Null} /\ sceneOptions \in LeafOptions
     \/ sceneRoot \in Groups /\ sceneOptions \in GroupOptions
  /\ output = NotRendered
  /\ dispatched = NoEvent

\* renderGraphicalElementSVG(element, options) runs.
Render ==
  /\ output = NotRendered
  /\ LET r == renderGraphicalElementSVG(sceneRoot, sceneOptions, pointer) IN
       /\ output' = [phase |-> "done", threw |-> r.threw, node |-> r.node]
       /\ pointer' = r.pointer
  /\ UNCHANGED <<lastCall, epochInputs, epochRets, resets, dirtyReset,
                 classified, sceneRoot, sceneOptions, dispatched>>

\* The output is a tree of nodes the pointer can act on.
Rendered == output /= NotRendered /\ ~output.threw /\ IsNode(output.node)

\* The user clicks the output node at `path`.  Events are handled one at a
\* time, each to completion.
Click(path) ==
  /\ dispatched = NoEvent
  /\ dispatched' = [event |-> "onClick", path |-> path,
                    calls |-> ClickCalls(output.node, path)]
  /\ UNCHANGED <<idVars, classified, sceneRoot, sceneOptions, output>>

\* The pointer enters the output node at `path`.
MouseEnter(path) ==
  /\ dispatched = NoEvent
  /\ dispatched' = [event |-> "onMouseEnter", path |-> path,
                    calls |-> HoverCalls(output.node, path, "onMouseEnter")]
  /\ UNCHANGED <<idVars, classified, sceneRoot, sceneOptions, output>>

\* The pointer leaves the output node at `path`.
MouseLeave(path) ==
  /\ dispatched = NoEvent
  /\ dispatched' = [event |-> "onMouseLeave", path |-> path,
                    calls |-> HoverCalls(output.node, path, "onMouseLeave")]
  /\ UNCHANGED <<idVars, classified, sceneRoot, sceneOptions, output>>

\* The listeners of the event have returned.
Handled ==
  /\ dispatched /= NoEvent
  /\ dispatched' = NoEvent
  /\ UNCHANGED <<idVars, classified, sceneRoot, sceneOptions, output>>

\* Nodes drawn by the renderer itself: a nested chart handles its own events.
Targets ==
  IF Rendered /\ output.node.tag /= "ChartComponent"
    THEN Paths(output.node) ELSE {}

\* The nodes a click can land on: the drawn shapes, texts and images.  A <g>
\* container paints nothing itself and receives a click only by bubbling.
ClickTargets == {path \in Targets : NodeAt(output.node, path).tag /= "g"}

NextRender ==
  \/ Render
  \/ \E path \in ClickTargets : Click(path)
  \/ \E path \in Targets : MouseEnter(path)
  \/ \E path \in Targets : MouseLeave(path)
  \/ Handled

SpecRender == InitRender /\ [][NextRender]_vars

---------------------------------------------------------------------------
(* Shapes and paths: the geometry given to the renderer.                   *)

\* The number of commands of a path node.
MaxCmds == 2

\* Coordinates: x and y values, zero and both signs among the y.
Xs == {-4, 2}

Ys == {-3, 0, 5}

\* Path commands: every letter of path_commands, the control points of the
\* curves and the radii, rotation and flags of the arc all different numbers.
Commands ==
  UNION { { moveTo(x, y), lineTo(x, y),
            PathCommand("C", <<x, y, x + 10, y + 10, x + 20, y + 20>>),
            PathCommand("Q", <<x, y, x + 10, y + 10>>),
            arcTo(7, 8, 30, 1, 0, x, y) } : x \in Xs, y \in Ys }
  \cup {closePath}

\* A rect node and a path node, drawn plainly.
RectAt(x1, y1, x2, y2) ==
  [x1 |-> x1, y1 |-> y1, x2 |-> x2, y2 |-> y2]
    @@ Leaf("rect", Undefined, Undefined, Undefined)

PathOf(cmds) == [cmds |-> cmds] @@ Leaf("path", Undefined, Undefined, Undefined)

PathScenes ==
  { RectAt(x1, y1, x2, y2) : x1 \in Xs, x2 \in Xs, y1 \in Ys, y2 \in Ys }
  \cup { PathOf(cmds) : cmds \in SeqsUpTo(Commands, MaxCmds) }

\* A rect or a path is given to the renderer.
InitPath ==
  /\ FreshIdentity
  /\ sceneRoot \in PathScenes
  /\ sceneOptions = Undefined
  /\ output = NotRendered
  /\ dispatched = NoEvent

NextPath == Render

SpecPath == InitPath /\ [][NextPath]_vars

---------------------------------------------------------------------------
(* Chart containers: the closures handed to the nested chart.              *)

\* The length of a container's rowIndices table and of a row-index list.
MaxRows == 2

\* The parent rows are 0..MaxParentRow.
MaxParentRow == 2

\* rowIndices tables of a container: parent rows, by child row.
RowTables == SeqsUpTo({Num(n) : n \in 0..MaxParentRow}, MaxRows)

\* Row-index lists of the nested chart: child rows, some past the table's end.
ChildRowLists == SeqsUpTo({Num(n) : n \in 0..MaxRows}, MaxRows)

ContainerSelectable(table, glyph, rows) ==
  Obj([plotSegment |-> Obj([table |-> Str(table)]), glyphIndex |-> Num(glyph),
       rowIndices |-> rows])

\* Chart containers, with and without a selectable descriptor.
Containers ==
  { Leaf("chart-container", Undefined, Undefined, selectable) :
      selectable \in {Undefined} \cup
        { ContainerSelectable("T1", 4, rows) : rows \in RowTables } }

\* The parent's selection object.
ParentSelection == [t |-> "selection", name |-> "parent"]

ContainerOptions ==
  { Callbacks(registered) @@ [selection |-> selection, key |-> Str("k")] :
      registered \in {{}, {"onClick"}, EventNames},
      selection \in {Undefined, ParentSelection} }

\* The selectable descriptors the nested chart reports: of one of its glyphs.
SubSelectables ==
  { Obj([plotSegment |-> Obj([table |-> Str("Sub")]), glyphIndex |-> Num(9),
         rowIndices |-> rows]) : rows \in ChildRowLists }

\* A variant of At that counts positions from one.
At_fromOne(array, i) ==
  IF i.t = "number" /\ i.n \in DOMAIN array THEN array[i.n] ELSE Undefined

\* `array[i]`: positions count from zero; undefined past the end.
At(array, i) ==
  IF i.t = "number" /\ (i.n + 1) \in DOMAIN array THEN array[i.n + 1]
  ELSE Undefined

\* `rowIndices.map(x => component.selectable.rowIndices[x])`
MapRows(component, rowIndices) ==
  [k \in DOMAIN rowIndices |->
     At(GetProp(component.selectable, "rowIndices"), rowIndices[k])]

\* subSelection.isSelected(table, rowIndices): the call it makes to the
\* parent's isSelected, whose answer it returns; a TypeError when the
\* container has no selectable.
subSelectionIsSelected(closure, table, rowIndices, answer) ==
  IF ~CanRead(closure.component.selectable) THEN [threw |-> TRUE, calls |-> <<>>]
  ELSE [threw |-> FALSE,
        calls |-> <<[receiver |-> closure.selection,
                     table |-> GetProp(GetProp(closure.component.selectable,
                                               "plotSegment"), "table"),
                     rowIndices |-> MapRows(closure.component, rowIndices)]>>,
        ret |-> answer]

\* The handler convertEventHandler returns, called with (s, parameters): the
\* call it makes to the parent's handler; a TypeError when s is given and the
\* container has no selectable.
convertedHandler(closure, s) ==
  IF s.t \in {"null", "undefined"}
    THEN [threw |-> FALSE,
          calls |-> <<[handler |-> closure.handler,
                       arg |-> closure.component.selectable]>>]
  ELSE IF ~CanRead(closure.component.selectable)
    THEN [threw |-> TRUE, calls |-> <<>>]
  ELSE [threw |-> FALSE,
        calls |-> <<[handler |-> closure.handler,
                     arg |-> Obj([plotSegment |->
                                    GetProp(closure.component.selectable,
                                            "plotSegment"),
                                  glyphIndex |->
                                    GetProp(closure.component.selectable,
                                            "glyphIndex"),
                                  rowIndices |->
                                    MapRows(closure.component,
                                            GetProp(s, "rowIndices"))])]>>]

\* A chart container and its options are given to the renderer.
InitContainer ==
  /\ FreshIdentity
  /\ sceneRoot \in Containers
  /\ sceneOptions \in ContainerOptions
  /\ output = NotRendered
  /\ dispatched = NoEvent

\* The nested chart asks whether rows of `table` are selected; the parent's
\* isSelected answers `answer`.
QuerySelection(table, rowIndices, answer) ==
  /\ Rendered
  /\ dispatched = NoEvent
  /\ output.node.tag = "ChartComponent"
  /\ output.node.props.selection /= Null
  /\ LET r == subSelectionIsSelected(output.node.props.selection, table,
                                     rowIndices, answer)
     IN  dispatched' = [event |-> "isSelected", table |-> table,
                        rowIndices |-> rowIndices, answer |-> answer] @@ r
  /\ UNCHANGED <<idVars, classified, sceneRoot, sceneOptions, output>>

\* The nested chart reports a click or hover: on one of its glyphs (s), or
\* inside it but on no glyph (s = null).
GlyphEvent(prop, s) ==
  /\ Rendered
  /\ dispatched = NoEvent
  /\ output.node.tag = "ChartComponent"
  /\ output.node.props[prop] /= Null
  /\ dispatched' = [event |-> prop, s |-> s]
                     @@ convertedHandler(output.node.props[prop], s)
  /\ UNCHANGED <<idVars, classified, sceneRoot, sceneOptions, output>>

GlyphProps == {"onGlyphClick", "onGlyphMouseEnter", "onGlyphMouseLeave"}

NextContainer ==
  \/ Render
  \/ \E table \in {Str("Sub")}, rowIndices \in ChildRowLists,
        answer \in BOOLEAN :
       QuerySelection(table, rowIndices, answer)
  \/ \E prop \in GlyphProps, s \in {Null} \cup SubSelectables :
       GlyphEvent(prop, s)
  \/ Handled

SpecContainer == InitContainer /\ [][NextContainer]_vars

---------------------------------------------------------------------------
(* The identity service as a state machine.                                *)

\* markID(datum) runs: the counters advance and the call is recorded.
RunMarkIDCall(datum) ==
  LET r == markID(datum, pointer) IN
    /\ pointer' = r.pointer
    /\ lastCall' = [op |-> "markID", datum |-> datum, ret |-> r.ret,
                    before |-> pointer]
    /\ epochInputs' = Append(epochInputs, datum)
    /\ epochRets' = Append(epochRets, r.ret)

\* A caller calls markID(datum).
MarkID(datum) ==
  /\ Len(epochInputs) < MaxCalls
  /\ RunMarkIDCall(datum)
  /\ UNCHANGED <<resets, dirtyReset, classified, renderVars>>

\* A caller calls resetMarkID().
ResetMarkID ==
  /\ resets < MaxResets
  /\ pointer' = resetMarkID(pointer)
  /\ lastCall' = [op |-> "resetMarkID", before |-> pointer]
  /\ epochInputs' = <<>>
  /\ epochRets' = <<>>
  /\ resets' = resets + 1
  /\ dirtyReset' = (pointer /= EmptyObject)
  /\ UNCHANGED <<classified, renderVars>>

\* A caller calls getElementClassType(datum).
GetElementClassType(datum) ==
  /\ Len(classified) < MaxClassCalls
  /\ classified' = Append(classified, [datum |-> datum,
                                       classes |-> getElementClassType(datum)])
  /\ UNCHANGED <<idVars, renderVars>>

Next ==
  \/ \E datum \in Datums : MarkID(datum)
  \/ ResetMarkID

Spec == Init /\ [][Next]_vars

\* A session that draws many marks of one type: its first NamespaceBlock + 1
\* markID calls carry a "rect" payload, the MaxBlockExtra calls after them a
\* "rect" or a "circle" payload.
BlockMarkID(datum) ==
  /\ Len(epochInputs) < NamespaceBlock + 1 + MaxBlockExtra
  /\ Len(epochInputs) < NamespaceBlock + 1
       => datum = Str("{\"_TYPE\":\"rect\",\"_MARKID\":\"m7\"}")
  /\ RunMarkIDCall(datum)
  /\ UNCHANGED <<resets, dirtyReset, classified, renderVars>>

NextBlock ==
  \E datum \in {Str("{\"_TYPE\":\"rect\",\"_MARKID\":\"m7\"}"),
                Str("{\"_TYPE\":\"circle\",\"_MARKID\":\"m2\"}")} :
    BlockMarkID(datum)

SpecBlock == Init /\ [][NextBlock]_vars

NextClass == \E datum \in Datums : GetElementClassType(datum)

SpecClass == Init /\ [][NextClass]_vars

---------------------------------------------------------------------------
(* Properties of the identity service.                                     *)

\* The type tag a payload carries: _TYPE of the parsed value, after a leading
\* array is unwrapped to its first element; undefined when there is none.
TagOf(datum) ==
  LET parsed == JSONParse(datum) IN
  IF parsed = Thrown \/ ~CanRead(Unwrap(parsed)) THEN Undefined
  ELSE GetProp(Unwrap(parsed), "_TYPE")

\* The payload yields no descriptor: JSON.parse throws, or the parsed value
\* (after unwrapping) is null or undefined.
NoDescriptor(datum) ==
  JSONParse(datum) = Thrown \/ ~CanRead(Unwrap(JSONParse(datum)))

\* A payload C2 speaks of: it parses to a value that can carry a type tag, and
\* the tag is none of those C1 excludes.
Eligible(datum) ==
  /\ Truthy(datum)
  /\ ~NoDescriptor(datum)
  /\ TagOf(datum) \notin {Str("axis"), Str("legend"), Str("nested-chart")}

\* The labels markID returns for the payloads `inputs`, in order, from the
\* counters `ptr`.
RECURSIVE RunMarkID(_, _)
RunMarkID(ptr, inputs) ==
  IF inputs = <<>> THEN <<>>
  ELSE LET r == markID(Head(inputs), ptr)
       IN  <<r.ret>> \o RunMarkID(r.pointer, Tail(inputs))

\* C1 (as claimed): a payload whose type tag is exactly "axis", "legend" or
\* "nested-chart" makes markID return null, whatever the counters hold.
C1_ExcludedTagsReturnNull ==
  (/\ lastCall.op = "markID"
   /\ TagOf(lastCall.datum) \in {Str("axis"), Str("legend"), Str("nested-chart")})
  => lastCall.ret = Null

\* C2 (as claimed): within one epoch the "mark"+n labels returned for
\* parseable, non-excluded payloads are pairwise distinct and each is greater
\* than every label returned before it, for any mix of type tags and however
\* many labels a namespace has issued.  Stated of the latest call against all
\* earlier ones, which covers every pair as the epoch grows.
C2_LabelsDistinctAndIncreasing ==
  LET n == Len(epochInputs) IN
  \A i \in 1..(n - 1) :
    (Eligible(epochInputs[i]) /\ Eligible(epochInputs[n]))
      => /\ IsMarkLabel(epochRets[i])
         /\ IsMarkLabel(epochRets[n])
         /\ epochRets[i].n < epochRets[n].n

\* The part of C2 about uniqueness alone: no label is returned twice in an
\* epoch.
LabelsDistinct ==
  LET n == Len(epochInputs) IN
  \A i \in 1..(n - 1) :
    IsMarkLabel(epochRets[n]) => epochRets[i] /= epochRets[n]

\* C3: after resetMarkID, whatever was issued before it, the labels returned
\* for a sequence of payloads are those a fresh process start (pointer = {})
\* returns for the same sequence.
C3_ResetAsFresh ==
  resets > 0 => epochRets = RunMarkID(EmptyObject, epochInputs)

\* C3 witness: a reset that cleared counters, followed by two calls of which
\* the first was given a label.
C3_Witness ==
  /\ resets > 0
  /\ dirtyReset
  /\ Len(epochRets) >= 2
  /\ IsMarkLabel(epochRets[1])

\* C4 (as claimed): a payload string that does not parse makes markID return
\* the payload unchanged and leaves the counters as they were.
C4_UnparseableReturnsRaw ==
  (/\ lastCall.op = "markID"
   /\ lastCall.datum.t = "string"
   /\ JSONParse(lastCall.datum) = Thrown)
  => (lastCall.ret = lastCall.datum /\ pointer = lastCall.before)

\* C4 (amended): a non-empty payload that yields no descriptor (JSON.parse
\* throws, or the parsed value is null or undefined after unwrapping) makes
\* markID return the payload unchanged; the empty payload makes it return
\* null; in both cases the counters are left as they were.
C4_NonEmptyUnparseableReturnsRaw ==
  (/\ lastCall.op = "markID"
   /\ lastCall.datum.t = "string"
   /\ NoDescriptor(lastCall.datum))
  => /\ pointer = lastCall.before
     /\ lastCall.ret = IF lastCall.datum.s = "" THEN Null ELSE lastCall.datum

\* C4 witness: markID was given text that is not JSON while a counter exists.
C4_Witness ==
  /\ lastCall.op = "markID"
  /\ lastCall.datum = Str("not json")
  /\ lastCall.before /= EmptyObject
  /\ lastCall.ret = Str("not json")

\* The tags of the model's payloads that start with "axis-" or "legend-".
PrefixedTags == {Str("axis-x"), Str("legend-item")}

\* The tags that name a whole axis, legend or nested chart.
WholeTags == {Str("axis"), Str("legend"), Str("nested-chart")}

\* The class list C5 states for a payload, reading "tagged" as "_TYPE is
\* present".
C5_ClaimedClasses(datum) ==
  LET parsed == JSONParse(datum)
      tag == TagOf(datum)
  IN  IF parsed = Thrown THEN <<>>
      ELSE IF tag = Undefined THEN <<Str("mark")>>
      ELSE IF tag \in PrefixedTags THEN <<Str("mark"), tag>>
      ELSE IF tag \in WholeTags THEN <<tag>>
      ELSE <<Str("mark"), GetProp(Unwrap(parsed), "_MARKID"), tag>>

\* The class list of the amended C5: the tag counts when it is a non-empty
\* string; a payload that yields no descriptor, or whose tag is a non-zero
\* number, gives the empty list; any other value gives ["mark"].
C5_AmendedClasses(datum) ==
  LET parsed == JSONParse(datum)
      tag == TagOf(datum)
  IN  IF NoDescriptor(datum) THEN <<>>
      ELSE IF tag.t = "number" /\ tag.n /= 0 THEN <<>>
      ELSE IF tag.t /= "string" \/ tag.s = "" THEN <<Str("mark")>>
      ELSE IF tag \in PrefixedTags THEN <<Str("mark"), tag>>
      ELSE IF tag \in WholeTags THEN <<tag>>
      ELSE <<Str("mark"), GetProp(Unwrap(parsed), "_MARKID"), tag>>

\* C5 (as claimed): getElementClassType returns the class list the claim
\* states, for every payload.
C5_ClassesAsClaimed ==
  \A i \in DOMAIN classified :
    classified[i].classes = C5_ClaimedClasses(classified[i].datum)

\* C5 (amended): getElementClassType returns the amended class list, for every
\* payload, and always returns a list.
C5_ClassesAmended ==
  \A i \in DOMAIN classified :
    classified[i].classes = C5_AmendedClasses(classified[i].datum)

\* C5 witness: an array-wrapped descriptor was classified by its first element
\* and a payload that parses to null was given the empty list.
C5_Witness ==
  /\ Len(classified) = 2
  /\ classified[1].datum = Str("[{\"_TYPE\":\"rect\",\"_MARKID\":\"m7\"}]")
  /\ classified[1].classes = <<Str("mark"), Str("m7"), Str("rect")>>
  /\ classified[2].datum = Str("null")
  /\ classified[2].classes = <<>>

---------------------------------------------------------------------------
(* Properties of the renderer.                                             *)

\* The style record a node is drawn with: the override, else its own.
GivenStyle == OrElse(Field(sceneOptions, "styleOverride"), sceneRoot.style)

\* The color the given style names under `field`; undefined when there is no
\* style record or it names none.
GivenColor(field) ==
  IF Truthy(GivenStyle) THEN GetProp(GivenStyle, field) ELSE Undefined

\* The text a color is written as.
ColorText(color) == RgbText(color.r, color.g, color.b)

\* C6 (as claimed): a text node is rendered as two stacked text outputs
\* exactly when its resolved stroke is present, and as a single text output
\* otherwise, a node without a style record included; of the two outputs the
\* first has fill = the stroke color and no stroke, the second the original
\* fill and no stroke.
C6_TextOutputs ==
  (Rendered /\ sceneRoot.type = "text") =>
    LET node == output.node
        stroke == GivenColor("strokeColor")
        fill == GivenColor("fillColor")
    IN  IF Truthy(stroke)
          THEN /\ node.tag = "g"
               /\ Len(node.children) = 2
               /\ \A i \in 1..2 : node.children[i].tag = "text"
               /\ GetProp(node.children[1].style, "fill") = ColorText(stroke)
               /\ GetProp(node.children[1].style, "stroke") = Str("none")
               /\ GetProp(node.children[2].style, "fill")
                    = (IF Truthy(fill) THEN ColorText(fill) ELSE Str("none"))
               /\ GetProp(node.children[2].style, "stroke") = Str("none")
          ELSE node.tag = "text"

\* The key of the child at position i (from zero) of a group.
PositionKey(i) == [t |-> "string", prefix |-> "m", n |-> i]

\* C7 (as claimed): a group of n children is rendered as one container whose
\* children are the n rendered children in input order, child i keyed "m"+i;
\* the ids of the child shape nodes are pairwise different, whatever their
\* payloads; the group's transform is on the container and on no child.
C7_GroupChildren ==
  (Rendered /\ sceneRoot.type = "group") =>
    LET node == output.node
        elements == sceneRoot.elements
        shapes == {i \in DOMAIN node.children :
                     IsNode(node.children[i]) /\ node.children[i].tag = "path"}
    IN  /\ node.tag = "g"
        /\ Len(node.children) = Len(elements)
        /\ \A i \in DOMAIN elements :
             IF "type" \in DOMAIN elements[i]
               THEN /\ IsNode(node.children[i])
                    /\ node.children[i].key = PositionKey(i - 1)
                    /\ (elements[i].type = "circle")
                         = (node.children[i].tag = "path")
               ELSE node.children[i] = Null
        /\ \A i, j \in shapes :
             i /= j => node.children[i].id /= node.children[j].id
        /\ Truthy(sceneRoot.transform) => node.props.transform /= Null
        /\ \A i \in DOMAIN node.children :
             IsNode(node.children[i]) =>
               Field(node.children[i].props, "transform") \in {Undefined, Null}

\* The output of a node carries a listener for `ev`: the output node itself,
\* or, for a text drawn as two stacked outputs, both of them.
Carries(node, ev) ==
  \/ ev \in DOMAIN node.on
  \/ /\ sceneRoot.type = "text"
     /\ node.tag = "g"
     /\ \A i \in DOMAIN node.children : ev \in DOMAIN node.children[i].on

\* The listener for `ev` the output carries.
ListenerOf(node, ev) ==
  IF ev \in DOMAIN node.on THEN node.on[ev] ELSE node.children[1].on[ev]

\* C8 (as claimed): for every variant of the closed set (the chart container,
\* whose events the nested chart routes, left aside) and each of the three
\* events, the output carries a listener for the event exactly when the node
\* is selectable and the callback is registered; the listener calls that
\* callback with the node's own selectable.
C8_ListenerIffSelectableAndRegistered ==
  (Rendered /\ sceneRoot.type \in ClosedTypes \ {"chart-container"}) =>
    \A ev \in EventNames :
      /\ Carries(output.node, ev)
           = (Truthy(sceneRoot.selectable) /\ Truthy(Field(sceneOptions, ev)))
      /\ Carries(output.node, ev) =>
           /\ ListenerOf(output.node, ev).handler = Field(sceneOptions, ev)
           /\ ListenerOf(output.node, ev).arg = sceneRoot.selectable

\* C9 (as claimed): a click on the output of a selectable node, under any
\* number of selectable ancestor groups, invokes the registered onClick
\* exactly once, with the clicked node's own selectable.
C9_ClickReachesInnermostOnly ==
  (/\ Rendered
   /\ dispatched.event = "onClick"
   /\ Truthy(Field(sceneOptions, "onClick"))
   /\ Truthy(SourceElement(sceneRoot, dispatched.path).selectable))
  => dispatched.calls =
       <<[handler |-> Field(sceneOptions, "onClick"),
          arg |-> SourceElement(sceneRoot, dispatched.path).selectable]>>

\* The parent row a child row is translated to by the table `rows`.
ParentRow(rows, i) == IF i.n < Len(rows) THEN rows[i.n + 1] ELSE Undefined

\* `translated` is `childRows` translated through the table `rows`: same
\* length, same order.
Translates(rows, childRows, translated) ==
  /\ Len(translated) = Len(childRows)
  /\ \A k \in DOMAIN childRows : translated[k] = ParentRow(rows, childRows[k])

\* The callback a glyph property of the nested chart is derived from.
CallbackOf(prop) ==
  CASE prop = "onGlyphClick" -> "onClick"
    [] prop = "onGlyphMouseEnter" -> "onMouseEnter"
    [] prop = "onGlyphMouseLeave" -> "onMouseLeave"

\* C10: for a chart container (with its selectable descriptor), the derived
\* selection predicate asks the parent's isSelected about the container's
\* plot-segment table and the child rows translated through
\* component.selectable.rowIndices, and returns its answer; a derived handler
\* called with null forwards the container's own selectable, and called with
\* a sub-element forwards the container's plotSegment and glyphIndex with the
\* translated rows; an absent callback or selection gives an absent (null)
\* derived one.
C10_RowIndexTranslation ==
  (Rendered /\ sceneRoot.type = "chart-container"
     /\ Truthy(sceneRoot.selectable)) =>
    LET props == output.node.props
        own == sceneRoot.selectable
        rows == own.f.rowIndices
    IN  /\ (props.selection = Null) = ~Truthy(Field(sceneOptions, "selection"))
        /\ \A prop \in GlyphProps :
             (props[prop] = Null) = ~Truthy(sceneOptions[CallbackOf(prop)])
        /\ dispatched.event = "isSelected" =>
             /\ ~dispatched.threw
             /\ Len(dispatched.calls) = 1
             /\ dispatched.calls[1].receiver = sceneOptions.selection
             /\ dispatched.calls[1].table = own.f.plotSegment.f.table
             /\ Translates(rows, dispatched.rowIndices,
                           dispatched.calls[1].rowIndices)
             /\ dispatched.ret = dispatched.answer
        /\ dispatched.event \in GlyphProps =>
             /\ ~dispatched.threw
             /\ Len(dispatched.calls) = 1
             /\ dispatched.calls[1].handler
                  = sceneOptions[CallbackOf(dispatched.event)]
             /\ IF dispatched.s = Null
                  THEN dispatched.calls[1].arg = own
                  ELSE LET arg == dispatched.calls[1].arg IN
                       /\ DOMAIN arg.f
                            = {"plotSegment", "glyphIndex", "rowIndices"}
                       /\ arg.f.plotSegment = own.f.plotSegment
                       /\ arg.f.glyphIndex = own.f.glyphIndex
                       /\ Translates(rows, dispatched.s.f.rowIndices,
                                     arg.f.rowIndices)

\* C10 witness: a click on a glyph of the nested chart whose child rows 0 and
\* 1 were forwarded as the parent rows 2 and 0.
C10_Witness ==
  /\ Rendered
  /\ dispatched.event = "onGlyphClick"
  /\ ~dispatched.threw
  /\ dispatched.s /= Null
  /\ dispatched.s.f.rowIndices = <<Num(0), Num(1)>>
  /\ dispatched.calls[1].arg.f.rowIndices = <<Num(2), Num(0)>>

\* The renderer was called and has ended: with a result or with an exception.
Ended == output /= NotRendered

\* The node given to the renderer is present.
Present == "type" \in DOMAIN sceneRoot

\* C11 (as claimed): rendering a present node whose variant tag is outside
\* the closed set ends in a fatal error; it never returns an absent or empty
\* result.
C11_UnknownVariantIsFatal ==
  (Ended /\ Present /\ sceneRoot.type \notin ClosedTypes) => output.threw

\* C12 (as claimed): for every node of the closed set and every combination
\* of render options, noStyle with a selectable descriptor and noStyle on a
\* text or text-on-path node included, rendering returns an output node and
\* raises no error; an absent node gives an absent result.
C12_RenderCompletes ==
  Ended =>
    IF ~Present THEN ~output.threw /\ output.node = Null
    ELSE sceneRoot.type \in ClosedTypes =>
           ~output.threw /\ IsNode(output.node)

\* The positions (from one) of the Y-valued arguments of a command, as the
\* SVG path grammar reads the emitted numbers: M x y, L x y, C x1 y1 x2 y2 x y,
\* Q x1 y1 x y, A rx ry rotation large-arc sweep x y.
YArguments(cmd) ==
  CASE cmd \in {"M", "L"} -> {2}
    [] cmd = "C" -> {2, 4, 6}
    [] cmd = "Q" -> {2, 4}
    [] cmd = "A" -> {7}
    [] cmd = "Z" -> {}

\* The token claimed for a command: its letter, and its arguments with the
\* Y-valued ones negated once and the others as given.
ClaimedToken(command) ==
  Token(command.cmd,
        [k \in DOMAIN command.args |->
           toSVGNumber(IF k \in YArguments(command.cmd)
                         THEN 0 - command.args[k] ELSE command.args[k])])

\* C13: the serialization of a path gives one token per command, in input
\* order, with the command's letter, every Y-valued argument negated once and
\* every X argument and the arc's radii, rotation and flags unchanged; a
\* rect(x1,y1,x2,y2) is emitted as M x1,-y1  L x1,-y2  L x2,-y2  L x2,-y1  Z.
C13_PathSerialization ==
  /\ (Rendered /\ sceneRoot.type = "path") =>
       LET d == output.node.props.d
           cmds == sceneRoot.cmds
       IN  /\ Len(d) = Len(cmds)
           /\ \A i \in DOMAIN cmds : d[i] = ClaimedToken(cmds[i])
  /\ (Rendered /\ sceneRoot.type = "rect") =>
       LET x1 == sceneRoot.x1
           y1 == sceneRoot.y1
           x2 == sceneRoot.x2
           y2 == sceneRoot.y2
       IN  output.node.props.d =
             << Token("M", <<toSVGNumber(x1), toSVGNumber(0 - y1)>>),
                Token("L", <<toSVGNumber(x1), toSVGNumber(0 - y2)>>),
                Token("L", <<toSVGNumber(x2), toSVGNumber(0 - y2)>>),
                Token("L", <<toSVGNumber(x2), toSVGNumber(0 - y1)>>),
                Token("Z", <<>>) >>

\* C13 witness: a path of an arc and a cubic curve was serialized, the arc's
\* end point (2, 5) written as 2,-5 after its radii, rotation and flags.
C13_Witness ==
  /\ Rendered
  /\ sceneRoot.type = "path"
  /\ sceneRoot.cmds =
       << arcTo(7, 8, 30, 1, 0, 2, 5),
          PathCommand("C", <<-4, -3, 6, 7, 16, 17>>) >>
  /\ output.node.props.d =
       << Token("A", <<toSVGNumber(7), toSVGNumber(8), toSVGNumber(30),
                       toSVGNumber(1), toSVGNumber(0), toSVGNumber(2),
                       toSVGNumber(-5)>>),
          Token("C", <<toSVGNumber(-4), toSVGNumber(3), toSVGNumber(6),
                       toSVGNumber(-7), toSVGNumber(16),
                       toSVGNumber(-17)>>) >>

=============================================================================
